---- MODULE Spec2Model ----
(***************************************************************************)
(* Model of the pty session multiplexer (src-tauri/src/lib.rs): the        *)
(* processes registry, the per-tab output buffers, the reader thread       *)
(* started by spawn_shell, and the tauri commands spawn_shell,             *)
(* write_to_shell, resize_pty, kill_shell and get_shell_buffer, each cut   *)
(* at its lock acquisitions and blocking calls.                            *)
(***************************************************************************)
EXTENDS Integers, Sequences, FiniteSets, TLC

\* ---------------------------------------------------------------- bounds
\* Session ids (tab_id) the UI uses, and the runtime threads that run
\* the async commands concurrently.
TabIds == {"t1", "t2"}
Threads == {"cmd1", "cmd2"}

\* External events in one run: commands the UI invokes and reads of the
\* reader threads that return output of a child.
MaxEvents == 4
\* Number of spawn_shell calls that get past try_clone_reader.
MaxSessions == 2
\* lib.rs:60 is 100 * 1024 and lib.rs:225 is 4096; both are scaled down,
\* keeping READ_CHUNK <= MAX_BUFFER_SIZE.
MAX_BUFFER_SIZE == 2
READ_CHUNK == 2

\* ------------------------------------------------------------- helpers
\* HashMap::insert / HashMap::remove on a map held as a function.
MapInsert(m, k, v) == [x \in DOMAIN m \cup {k} |-> IF x = k THEN v ELSE m[x]]
MapRemoveNothing(m, k) == m
MapRemove(m, k) == [x \in DOMAIN m \ {k} |-> m[x]]

\* The k-th byte (k = 1, 2, ...) that the child of session s writes to its
\* pty.  Every third byte is 0xFF, which is not valid UTF-8; the others are
\* ASCII codes that identify the session and the position.
PtyByte(s, k) == IF k % 3 = 0 THEN 255 ELSE 16 * s + k

PtyBytes(s, from, n) == [i \in 1..n |-> PtyByte(s, from + i)]

\* String::from_utf8_lossy on the bytes above: ASCII is kept, each 0xFF
\* becomes U+FFFD (65533).
Utf8Lossy(bytes) == [i \in 1..Len(bytes) |-> IF bytes[i] < 128 THEN bytes[i] ELSE 65533]

\* buffer.extend_from_slice(&buf[..n])
ExtendFromSlice(buffer, chunk) == buffer \o chunk

TrimToMaxKeepsOneMore(buffer) ==
    IF Len(buffer) > MAX_BUFFER_SIZE + 1
    THEN SubSeq(buffer, Len(buffer) - MAX_BUFFER_SIZE, Len(buffer))
    ELSE buffer

\* if buffer.len() > MAX_BUFFER_SIZE { buffer.drain(0..excess) }
TrimToMax(buffer) ==
    IF Len(buffer) > MAX_BUFFER_SIZE
    THEN SubSeq(buffer, Len(buffer) - MAX_BUFFER_SIZE + 1, Len(buffer))
    ELSE buffer

\* PtySize given to openpty, and the sizes resize_pty is called with.
InitialSize == <<80, 24>>
Sizes == {<<120, 40>>}

SpawnErrors == {"Failed to open PTY", "Failed to spawn", "Failed to get writer", "Failed to get reader"}

\* Control-plane connections accepted by start_ipc_server.
Conns == {"k1", "k2"}
\* Lines the clients send, all connections together.
MaxLines == 2
\* Duration::from_secs(30), the wait for the reply channel (lib.rs:1810),
\* scaled down to ticks of 10 seconds.
TIMEOUT_SECS == 3

\* json!({"error": "Timeout or no response"})
TimeoutError == "{error: Timeout or no response}"
\* Values the frontend passes to ipc_response; one looks like the error.
Values == {"{ok: true}", TimeoutError}

\* The worker thread of a connection, about to read its first line.
IdleWorker == [pc |-> "read_line", chan |-> 0, waited |-> 0, response |-> "none", lines |-> 0, replies |-> <<>>]

\* A runtime thread with no command, and the record of a command's result.
Idle == [op |-> "idle", id |-> "none", pc |-> "idle", sess |-> 0]
Running(op, id, pc, sess) == [op |-> op, id |-> id, pc |-> pc, sess |-> sess]
Ret(op, id, res, out) == [op |-> op, id |-> id, res |-> res, out |-> out]
\* A step in which no command returns.
NoReturn == Ret("none", "none", "none", <<>>)

\* run_mcp_server before its first line: no input line read, no tool call
\* in progress, nothing written to stdout.
NullArgs == [null |-> TRUE, fields |-> {}]
NoLine == [kind |-> "none", id |-> "none", method |-> "none", params |-> "null", name |-> "none", args |-> NullArgs]
NoResult == [kind |-> "none", text |-> <<>>, isError |-> FALSE]
NoOutput == [id |-> "none", kind |-> "none", code |-> 0, message |-> <<>>, result |-> NoResult]

\* --------------------------------------------------------------- state
VARIABLES
    processes,       \* AppState.processes: tab_id -> session (PtyProcess)
    output_buffers,  \* AppState.output_buffers: tab_id -> Vec<u8>
    procLock,        \* holder of the processes mutex, "none" when free
    bufLock,         \* reader thread holding the output_buffers mutex, 0 when free
    pumps,           \* reader threads: session -> [tab, pc, chunk, pos, stamp]
    ptys,            \* pty devices: session -> [tab, size]
    nextSession,     \* number of the next pty pair
    cmd,             \* per runtime thread, the command it runs
    last,            \* the result a command returned to the UI in the step just taken
    emitted,         \* text of the shell-output-<tab> events published, in order
    events,          \* commands invoked and chunks read so far
    appended,        \* history: <<session, byte>> appended to the buffer now under a tab
    owner,           \* history: session whose spawn created the buffer now under a tab
    returned,        \* history: last of spawn/kill that returned Ok per tab
    overlap,         \* history: spawn/kill calls on the tab ran concurrently
    killed,          \* history: kill returned; no spawn was called or stored a session since
    response_tx,     \* IpcState.response_tx: the channel whose Sender is stored, 0 for None
    chans,           \* oneshot channels: number -> [conn, tx, val, rx, outcome]
    workers,         \* per control connection, the state of its worker thread
    mcpEvents,       \* mcp-action events published, as the channel of each request
    submitted,       \* history: values ipc_response was called with
    fe,              \* run_mcp_server: [pc, n, line], the loop, lines read, the line it handles
    net,             \* send_to_app: what the call in progress did on its socket, in order
    out,             \* the last line run_mcp_server wrote to stdout
    answered,        \* history: per line written to stdout, the input line's number and the code
    argv,            \* main: the flags on the command line, none before main has run
    mode             \* main: what the process was started as, "start" before main has run

sessionVars == <<processes, output_buffers, procLock, bufLock, pumps, ptys, nextSession,
                 cmd, last, emitted, events, appended, owner, returned, overlap, killed>>

ipcVars == <<response_tx, chans, workers, mcpEvents, submitted>>

mcpVars == <<fe, net, out, answered>>

mainVars == <<argv, mode>>

vars == <<sessionVars, ipcVars, mcpVars, mainVars>>

EmptyMap == [x \in {} |-> 0]

Init ==
    /\ processes = EmptyMap
    /\ output_buffers = EmptyMap
    /\ procLock = "none"
    /\ bufLock = 0
    /\ pumps = EmptyMap
    /\ ptys = EmptyMap
    /\ nextSession = 1
    /\ cmd = [t \in Threads |-> Idle]
    /\ emitted = [i \in TabIds |-> <<>>]
    /\ appended = [i \in TabIds |-> <<>>]
    /\ returned = [i \in TabIds |-> "none"]
    /\ overlap = [i \in TabIds |-> FALSE]
    /\ killed = [i \in TabIds |-> FALSE]
    /\ owner = [i \in TabIds |-> 0]
    /\ last = NoReturn
    /\ events = 0
    /\ response_tx = 0
    /\ chans = EmptyMap
    /\ workers = [c \in Conns |-> IdleWorker]
    /\ mcpEvents = <<>>
    /\ submitted = {}
    /\ fe = [pc |-> "read", n |-> 0, line |-> NoLine, listening |-> TRUE]
    /\ net = <<>>
    /\ out = NoOutput
    /\ answered = <<>>
    /\ argv = {}
    /\ mode = "start"

\* A spawn_shell or kill_shell call on tab id is in progress on some thread.
Mutating(id) == {t \in Threads : cmd[t].id = id /\ cmd[t].op \in {"spawn", "kill"}}

\* Thread t is free to run the next command the UI invokes.
Free(t) == cmd[t].pc = "idle" /\ events < MaxEvents

SpawnOpenStoresFirst(t, id) ==
    /\ Free(t)
    /\ events' = events + 1
    /\ killed' = [killed EXCEPT ![id] = FALSE]
    /\ \/ /\ nextSession <= MaxSessions
          /\ cmd' = [cmd EXCEPT ![t] = Running("spawn", id, "insert_process", nextSession)]
          /\ ptys' = MapInsert(ptys, nextSession, [tab |-> id, size |-> InitialSize])
          /\ nextSession' = nextSession + 1
          /\ overlap' = [overlap EXCEPT ![id] = Mutating(id) # {}]
          /\ last' = NoReturn
          /\ UNCHANGED output_buffers
       \/ /\ \E e \in SpawnErrors : last' = Ret("spawn", id, e, <<>>)
          /\ output_buffers' = MapInsert(output_buffers, id, <<>>)
          /\ UNCHANGED <<cmd, ptys, nextSession, overlap>>
    /\ UNCHANGED <<processes, procLock, bufLock, pumps, emitted, appended, owner, returned>>
    /\ UNCHANGED <<ipcVars, mcpVars, mainVars>>

\* spawn_shell, lines 124-199: openpty, spawn_command, take_writer,
\* try_clone_reader; each `?` returns the error before anything is stored.
SpawnOpen(t, id) ==
    /\ Free(t)
    /\ events' = events + 1
    /\ killed' = [killed EXCEPT ![id] = FALSE]
    /\ \/ /\ nextSession <= MaxSessions
          /\ cmd' = [cmd EXCEPT ![t] = Running("spawn", id, "insert_process", nextSession)]
          /\ ptys' = MapInsert(ptys, nextSession, [tab |-> id, size |-> InitialSize])
          /\ nextSession' = nextSession + 1
          /\ overlap' = [overlap EXCEPT ![id] = Mutating(id) # {}]
          /\ last' = NoReturn
       \/ /\ \E e \in SpawnErrors : last' = Ret("spawn", id, e, <<>>)
          /\ UNCHANGED <<cmd, ptys, nextSession, overlap>>
    /\ UNCHANGED <<processes, output_buffers, procLock, bufLock, pumps, emitted, appended, owner, returned>>
    /\ UNCHANGED <<ipcVars, mcpVars, mainVars>>

\* spawn_shell, lines 201-211: processes.lock().await; insert; unlock.
SpawnInsertProcess(t) ==
    /\ cmd[t].op = "spawn" /\ cmd[t].pc = "insert_process"
    /\ procLock = "none"
    /\ processes' = MapInsert(processes, cmd[t].id, cmd[t].sess)
    /\ cmd' = [cmd EXCEPT ![t].pc = "insert_buffer"]
    /\ killed' = [killed EXCEPT ![cmd[t].id] = FALSE]
    /\ last' = NoReturn
    /\ UNCHANGED <<output_buffers, procLock, bufLock, pumps, ptys, nextSession, emitted, events,
                   appended, owner, returned, overlap>>
    /\ UNCHANGED <<ipcVars, mcpVars, mainVars>>

SpawnInsertBufferStartsReaderOnly(t) ==
    /\ cmd[t].op = "spawn" /\ cmd[t].pc = "insert_buffer"
    /\ bufLock = 0
    /\ pumps' = MapInsert(pumps, cmd[t].sess, [tab |-> cmd[t].id, pc |-> "read", chunk |-> <<>>, pos |-> 0, stamp |-> 0])
    /\ cmd' = [cmd EXCEPT ![t] = Idle]
    /\ last' = Ret("spawn", cmd[t].id, "ok", <<>>)
    /\ returned' = [returned EXCEPT ![cmd[t].id] = "spawn"]
    /\ UNCHANGED <<output_buffers, appended, owner>>
    /\ UNCHANGED <<processes, procLock, bufLock, ptys, nextSession, emitted, events, overlap, killed>>
    /\ UNCHANGED <<ipcVars, mcpVars, mainVars>>

\* spawn_shell, lines 213-251: insert an empty buffer under the std mutex,
\* start the reader thread, return Ok.
SpawnInsertBuffer(t) ==
    /\ cmd[t].op = "spawn" /\ cmd[t].pc = "insert_buffer"
    /\ bufLock = 0
    /\ output_buffers' = MapInsert(output_buffers, cmd[t].id, <<>>)
    /\ pumps' = MapInsert(pumps, cmd[t].sess, [tab |-> cmd[t].id, pc |-> "read", chunk |-> <<>>, pos |-> 0, stamp |-> 0])
    /\ cmd' = [cmd EXCEPT ![t] = Idle]
    /\ last' = Ret("spawn", cmd[t].id, "ok", <<>>)
    /\ appended' = [appended EXCEPT ![cmd[t].id] = <<>>]
    /\ owner' = [owner EXCEPT ![cmd[t].id] = cmd[t].sess]
    /\ returned' = [returned EXCEPT ![cmd[t].id] = "spawn"]
    /\ UNCHANGED <<processes, procLock, bufLock, ptys, nextSession, emitted, events, overlap, killed>>
    /\ UNCHANGED <<ipcVars, mcpVars, mainVars>>

\* Reader thread, lines 227-232: reader.read(&mut buf) returns n > 0 bytes,
\* which are emitted as shell-output-<tab> in lossy text; or it returns
\* Ok(0) / Err and the thread ends.  Nothing tells the thread that its
\* session was killed or replaced.
PumpRead(s) ==
    /\ s \in DOMAIN pumps /\ pumps[s].pc = "read"
    /\ \/ \E n \in 1..READ_CHUNK :
            /\ events < MaxEvents
            /\ events' = events + 1
            /\ pumps' = [pumps EXCEPT ![s].pc = "append",
                                      ![s].chunk = PtyBytes(s, pumps[s].pos, n),
                                      ![s].pos = pumps[s].pos + n]
            /\ emitted' = [emitted EXCEPT ![pumps[s].tab] = @ \o Utf8Lossy(PtyBytes(s, pumps[s].pos, n))]
       \/ /\ pumps' = [pumps EXCEPT ![s].pc = "done"]
          /\ UNCHANGED <<emitted, events>>
    /\ last' = NoReturn
    /\ UNCHANGED <<processes, output_buffers, procLock, bufLock, ptys, nextSession, cmd,
                   appended, owner, returned, overlap, killed>>
    /\ UNCHANGED <<ipcVars, mcpVars, mainVars>>

\* The reader thread cut between its two calls.  Reader thread, lines
\* 227-229: reader.read(&mut buf) returns n > 0 bytes, or Ok(0) / Err and
\* the thread ends; stamp is the number of the read among all events.
PumpReadChunk(s) ==
    /\ s \in DOMAIN pumps /\ pumps[s].pc = "read"
    /\ \/ \E n \in 1..READ_CHUNK :
            /\ events < MaxEvents
            /\ events' = events + 1
            /\ pumps' = [pumps EXCEPT ![s].pc = "emit",
                                      ![s].chunk = PtyBytes(s, pumps[s].pos, n),
                                      ![s].pos = pumps[s].pos + n,
                                      ![s].stamp = events + 1]
       \/ /\ pumps' = [pumps EXCEPT ![s].pc = "done"]
          /\ UNCHANGED events
    /\ last' = NoReturn
    /\ UNCHANGED <<processes, output_buffers, procLock, bufLock, ptys, nextSession, cmd, emitted,
                   appended, owner, returned, overlap, killed>>
    /\ UNCHANGED <<ipcVars, mcpVars, mainVars>>

\* Reader thread, lines 230-232: the chunk, as lossy text, is emitted as
\* shell-output-<tab> to every window.
PumpEmit(s) ==
    /\ s \in DOMAIN pumps /\ pumps[s].pc = "emit"
    /\ emitted' = [emitted EXCEPT ![pumps[s].tab] = @ \o Utf8Lossy(pumps[s].chunk)]
    /\ pumps' = [pumps EXCEPT ![s].pc = "append", ![s].stamp = 0]
    /\ last' = NoReturn
    /\ UNCHANGED <<processes, output_buffers, procLock, bufLock, ptys, nextSession, cmd, events,
                   appended, owner, returned, overlap, killed>>
    /\ UNCHANGED <<ipcVars, mcpVars, mainVars>>

Tagged(s, chunk) == [i \in 1..Len(chunk) |-> <<s, chunk[i]>>]

\* Reader thread, lines 235-237: lock output_buffers; if the tab has a
\* buffer, extend it (the lock stays held), else unlock and read on.
PumpAppend(s) ==
    /\ s \in DOMAIN pumps /\ pumps[s].pc = "append"
    /\ bufLock = 0
    /\ LET tab == pumps[s].tab IN
       IF tab \in DOMAIN output_buffers
       THEN /\ output_buffers' = [output_buffers EXCEPT ![tab] = ExtendFromSlice(@, pumps[s].chunk)]
            /\ appended' = [appended EXCEPT ![tab] = @ \o Tagged(s, pumps[s].chunk)]
            /\ bufLock' = s
            /\ pumps' = [pumps EXCEPT ![s].pc = "trim"]
       ELSE /\ pumps' = [pumps EXCEPT ![s].pc = "read", ![s].chunk = <<>>]
            /\ UNCHANGED <<output_buffers, appended, bufLock>>
    /\ last' = NoReturn
    /\ UNCHANGED <<processes, procLock, ptys, nextSession, cmd, emitted, events, owner, returned, overlap, killed>>
    /\ UNCHANGED <<ipcVars, mcpVars, mainVars>>

PumpTrimKeepsGuard(s) ==
    /\ s \in DOMAIN pumps /\ pumps[s].pc = "trim"
    /\ bufLock = s
    /\ output_buffers' = [output_buffers EXCEPT ![pumps[s].tab] = TrimToMax(@)]
    /\ bufLock' = s
    /\ pumps' = [pumps EXCEPT ![s].pc = "read", ![s].chunk = <<>>]
    /\ last' = NoReturn
    /\ UNCHANGED <<processes, procLock, ptys, nextSession, cmd, emitted, events,
                   appended, owner, returned, overlap, killed>>
    /\ UNCHANGED <<ipcVars, mcpVars, mainVars>>

\* Reader thread, lines 238-244: drain the excess from the front, unlock.
PumpTrim(s) ==
    /\ s \in DOMAIN pumps /\ pumps[s].pc = "trim"
    /\ bufLock = s
    /\ output_buffers' = [output_buffers EXCEPT ![pumps[s].tab] = TrimToMax(@)]
    /\ bufLock' = 0
    /\ pumps' = [pumps EXCEPT ![s].pc = "read", ![s].chunk = <<>>]
    /\ last' = NoReturn
    /\ UNCHANGED <<processes, procLock, ptys, nextSession, cmd, emitted, events,
                   appended, owner, returned, overlap, killed>>
    /\ UNCHANGED <<ipcVars, mcpVars, mainVars>>

\* write_to_shell, lines 260-261, and resize_pty, lines 281-282: take the
\* processes lock and look the tab up; a missing tab returns Ok at once.
Lookup(t, op, id) ==
    /\ Free(t)
    /\ op \in {"write", "resize"}
    /\ procLock = "none"
    /\ events' = events + 1
    /\ IF id \in DOMAIN processes
       THEN /\ cmd' = [cmd EXCEPT ![t] = Running(op, id, "io", processes[id])]
            /\ procLock' = t
            /\ last' = NoReturn
       ELSE /\ last' = Ret(op, id, "ok", <<>>)
            /\ UNCHANGED <<cmd, procLock>>
    /\ UNCHANGED <<processes, output_buffers, bufLock, pumps, ptys, nextSession, emitted,
                   appended, owner, returned, overlap, killed>>
    /\ UNCHANGED <<ipcVars, mcpVars, mainVars>>

WriteIODropsSessionOnError(t) ==
    /\ cmd[t].op = "write" /\ cmd[t].pc = "io"
    /\ procLock = t
    /\ \E outcome \in {"ok", "Write failed", "Flush failed"} :
        /\ last' = Ret("write", cmd[t].id, outcome, <<>>)
        /\ processes' = IF outcome = "ok" THEN processes ELSE MapRemove(processes, cmd[t].id)
    /\ cmd' = [cmd EXCEPT ![t] = Idle]
    /\ procLock' = "none"
    /\ UNCHANGED <<output_buffers, bufLock, pumps, ptys, nextSession, emitted, events,
                   appended, owner, returned, overlap, killed>>
    /\ UNCHANGED <<ipcVars, mcpVars, mainVars>>

\* write_to_shell, lines 262-271: write_all then flush on the session's
\* writer, the processes lock held; the guard is dropped when it returns.
WriteIO(t) ==
    /\ cmd[t].op = "write" /\ cmd[t].pc = "io"
    /\ procLock = t
    /\ \E outcome \in {"ok", "Write failed", "Flush failed"} : last' = Ret("write", cmd[t].id, outcome, <<>>)
    /\ cmd' = [cmd EXCEPT ![t] = Idle]
    /\ procLock' = "none"
    /\ UNCHANGED <<processes, output_buffers, bufLock, pumps, ptys, nextSession, emitted, events,
                   appended, owner, returned, overlap, killed>>
    /\ UNCHANGED <<ipcVars, mcpVars, mainVars>>

\* resize_pty, lines 283-294: master.resize, the processes lock held.
ResizeIO(t) ==
    /\ cmd[t].op = "resize" /\ cmd[t].pc = "io"
    /\ procLock = t
    /\ \/ \E size \in Sizes :
            /\ ptys' = [ptys EXCEPT ![cmd[t].sess].size = size]
            /\ last' = Ret("resize", cmd[t].id, "ok", <<>>)
       \/ /\ last' = Ret("resize", cmd[t].id, "Resize failed", <<>>)
          /\ UNCHANGED ptys
    /\ cmd' = [cmd EXCEPT ![t] = Idle]
    /\ procLock' = "none"
    /\ UNCHANGED <<processes, output_buffers, bufLock, pumps, nextSession, emitted, events,
                   appended, owner, returned, overlap, killed>>
    /\ UNCHANGED <<ipcVars, mcpVars, mainVars>>

\* The session stored under a tab, 0 when there is none.
SessionOf(id) == IF id \in DOMAIN processes THEN processes[id] ELSE 0

\* kill_shell, lines 299-300: take the processes lock, remove the entry
\* (the removed PtyProcess, if any, is dropped).
KillRemoveProcess(t, id) ==
    /\ Free(t)
    /\ procLock = "none"
    /\ events' = events + 1
    /\ processes' = MapRemove(processes, id)
    /\ procLock' = t
    /\ cmd' = [cmd EXCEPT ![t] = Running("kill", id, "remove_buffer", SessionOf(id))]
    /\ overlap' = [overlap EXCEPT ![id] = Mutating(id) # {}]
    /\ last' = NoReturn
    /\ UNCHANGED <<output_buffers, bufLock, pumps, ptys, nextSession, emitted,
                   appended, owner, returned, killed>>
    /\ UNCHANGED <<ipcVars, mcpVars, mainVars>>

KillRemoveBufferClearsAll(t) ==
    /\ cmd[t].op = "kill" /\ cmd[t].pc = "remove_buffer"
    /\ procLock = t
    /\ bufLock = 0
    /\ output_buffers' = EmptyMap
    /\ procLock' = "none"
    /\ cmd' = [cmd EXCEPT ![t] = Idle]
    /\ last' = Ret("kill", cmd[t].id, "ok", <<>>)
    /\ appended' = [appended EXCEPT ![cmd[t].id] = <<>>]
    /\ owner' = [owner EXCEPT ![cmd[t].id] = 0]
    /\ returned' = [returned EXCEPT ![cmd[t].id] = "kill"]
    /\ killed' = [killed EXCEPT ![cmd[t].id] = TRUE]
    /\ UNCHANGED <<processes, bufLock, pumps, ptys, nextSession, emitted, events, overlap>>
    /\ UNCHANGED <<ipcVars, mcpVars, mainVars>>

\* kill_shell, lines 302-305: take the output_buffers lock, remove the
\* buffer, return Ok; both guards are dropped.
KillRemoveBuffer(t) ==
    /\ cmd[t].op = "kill" /\ cmd[t].pc = "remove_buffer"
    /\ procLock = t
    /\ bufLock = 0
    /\ output_buffers' = MapRemove(output_buffers, cmd[t].id)
    /\ procLock' = "none"
    /\ cmd' = [cmd EXCEPT ![t] = Idle]
    /\ last' = Ret("kill", cmd[t].id, "ok", <<>>)
    /\ appended' = [appended EXCEPT ![cmd[t].id] = <<>>]
    /\ owner' = [owner EXCEPT ![cmd[t].id] = 0]
    /\ returned' = [returned EXCEPT ![cmd[t].id] = "kill"]
    /\ killed' = [killed EXCEPT ![cmd[t].id] = TRUE]
    /\ UNCHANGED <<processes, bufLock, pumps, ptys, nextSession, emitted, events, overlap>>
    /\ UNCHANGED <<ipcVars, mcpVars, mainVars>>

\* get_shell_buffer, lines 311-318: the lossy text of the tab's buffer, or
\* the empty string when the tab has none.
BufferSnapshotUnknownTabFails(buffers, id) ==
    IF id \in DOMAIN buffers THEN Ret("get_buffer", id, "ok", Utf8Lossy(buffers[id]))
    ELSE Ret("get_buffer", id, "Failed to lock buffers", <<>>)

BufferSnapshot(buffers, id) ==
    IF id \in DOMAIN buffers THEN Ret("get_buffer", id, "ok", Utf8Lossy(buffers[id]))
    ELSE Ret("get_buffer", id, "ok", <<>>)

GetShellBuffer(t, id) ==
    /\ Free(t)
    /\ bufLock = 0
    /\ events' = events + 1
    /\ last' = BufferSnapshot(output_buffers, id)
    /\ UNCHANGED <<processes, output_buffers, procLock, bufLock, pumps, ptys, nextSession, cmd, emitted,
                   appended, owner, returned, overlap, killed>>
    /\ UNCHANGED <<ipcVars, mcpVars, mainVars>>

Next ==
    \/ \E t \in Threads, id \in TabIds : SpawnOpen(t, id)
    \/ \E t \in Threads : SpawnInsertProcess(t)
    \/ \E t \in Threads : SpawnInsertBuffer(t)
    \/ \E s \in 1..MaxSessions : PumpRead(s)
    \/ \E s \in 1..MaxSessions : PumpAppend(s)
    \/ \E s \in 1..MaxSessions : PumpTrim(s)
    \/ \E t \in Threads, op \in {"write", "resize"}, id \in TabIds : Lookup(t, op, id)
    \/ \E t \in Threads : WriteIO(t)
    \/ \E t \in Threads : ResizeIO(t)
    \/ \E t \in Threads, id \in TabIds : KillRemoveProcess(t, id)
    \/ \E t \in Threads : KillRemoveBuffer(t)
    \/ \E t \in Threads, id \in TabIds : GetShellBuffer(t, id)

Spec == Init /\ [][Next]_vars

\* The sessions and their reader threads alone, with the reader thread's
\* read and emit as two steps, so that reader threads interleave between
\* them.
NextReaders ==
    \/ \E t \in Threads, id \in TabIds : SpawnOpen(t, id)
    \/ \E t \in Threads : SpawnInsertProcess(t)
    \/ \E t \in Threads : SpawnInsertBuffer(t)
    \/ \E s \in 1..MaxSessions : PumpReadChunk(s)
    \/ \E s \in 1..MaxSessions : PumpEmit(s)
    \/ \E s \in 1..MaxSessions : PumpAppend(s)
    \/ \E s \in 1..MaxSessions : PumpTrim(s)
    \/ \E t \in Threads, id \in TabIds : KillRemoveProcess(t, id)
    \/ \E t \in Threads : KillRemoveBuffer(t)

SpecReaders == Init /\ [][NextReaders]_vars

\* ------------------------------------------------- session properties
\* Tabs for which a spawn_shell call got as far as opening a pty.
SpawnedTabs == {ptys[s].tab : s \in DOMAIN ptys}

\* The last n elements of a sequence (all of it when it is shorter).
LastN(q, n) == IF Len(q) > n THEN SubSeq(q, Len(q) - n + 1, Len(q)) ELSE q

\* The bytes session s appended, out of a history of <<session, byte>>.
RECURSIVE BytesOf(_, _)
BytesOf(h, s) ==
    IF h = <<>> THEN <<>>
    ELSE IF Head(h)[1] = s THEN <<Head(h)[2]>> \o BytesOf(Tail(h), s) ELSE BytesOf(Tail(h), s)

\* C1: when the spawn and kill calls on a tab did not run concurrently with
\* each other and none is in progress, the tab is in the processes map
\* exactly if the last of them to return Ok was a spawn.
C1_RegistryIsSpawnedNotKilled ==
    \A id \in TabIds :
        (Mutating(id) = {} /\ ~overlap[id]) => ((id \in DOMAIN processes) <=> (returned[id] = "spawn"))

C1_Witness ==
    \E id, other \in TabIds :
        /\ returned[id] = "kill" /\ ~overlap[id] /\ Mutating(id) = {} /\ id \notin DOMAIN processes
        /\ returned[other] = "spawn" /\ ~overlap[other] /\ Mutating(other) = {} /\ other \in DOMAIN processes

\* C2: whenever no reader thread holds the output_buffers lock, every
\* buffer holds at most MAX_BUFFER_SIZE bytes.
C2_BufferWithinCapacity ==
    bufLock = 0 => \A id \in DOMAIN output_buffers : Len(output_buffers[id]) <= MAX_BUFFER_SIZE

C2_Witness ==
    /\ bufLock = 0
    /\ \E id \in DOMAIN output_buffers :
        Len(output_buffers[id]) = MAX_BUFFER_SIZE /\ Len(appended[id]) > MAX_BUFFER_SIZE

\* C3: whenever no reader thread holds the lock, the buffer under a tab is
\* the concatenation of the chunks appended by the reader thread of the
\* session that created it, cut to its last MAX_BUFFER_SIZE bytes.
C3_BufferIsOwnChunksSuffix ==
    bufLock = 0 =>
        \A id \in DOMAIN output_buffers :
            output_buffers[id] = LastN(BytesOf(appended[id], owner[id]), MAX_BUFFER_SIZE)

\* C4: get_shell_buffer on a tab that was never spawned returns Ok with
\* the empty string.
C4_NeverSpawnedReadsEmpty ==
    (last.op = "get_buffer" /\ last.id \notin SpawnedTabs) => (last.res = "ok" /\ last.out = <<>>)

C4_Witness ==
    /\ last.op = "get_buffer" /\ last.id \notin SpawnedTabs
    /\ \E id \in DOMAIN output_buffers : output_buffers[id] # <<>>

\* C5: write_to_shell, resize_pty and kill_shell on a tab that is not in
\* the processes map return Ok and change neither the processes map nor
\* any output buffer.
C5_MissingIdIsNoOp ==
    [][/\ \A t \in Threads :
            (cmd[t].op = "kill" /\ cmd[t].sess = 0 /\ cmd'[t].pc = "idle")
                => (last'.res = "ok" /\ UNCHANGED <<processes, output_buffers>>)
       /\ \A t \in Threads :
            (cmd[t].pc = "idle" /\ cmd'[t].op = "kill" /\ cmd'[t].sess = 0)
                => UNCHANGED <<processes, output_buffers>>
       /\ (events' = events + 1 /\ cmd' = cmd /\ last'.op \in {"write", "resize"})
                => (last'.res = "ok" /\ UNCHANGED <<processes, output_buffers>>)]_vars

\* C6: once kill_shell on a tab has returned, and as long as no spawn_shell
\* call on the tab begins or stores its session after that, the tab has no
\* session and get_shell_buffer on it returns the empty string, whatever
\* the reader threads do; so another kill_shell changes nothing.
C6_KilledStaysEmpty ==
    \A id \in TabIds :
        killed[id] => (id \notin DOMAIN processes /\ BufferSnapshot(output_buffers, id).out = <<>>)

\* C7: a spawn_shell call that fails returns one of its error messages and
\* leaves the processes map, the output buffers and the reader threads as
\* they were.
C7_FailedSpawnChangesNothing ==
    [][(events' = events + 1 /\ cmd' = cmd /\ last'.op = "spawn")
            => (last'.res \in SpawnErrors /\ UNCHANGED <<processes, output_buffers, pumps>>)]_vars

C7_Witness ==
    /\ last.op = "spawn" /\ last.res \in SpawnErrors
    /\ processes # EmptyMap /\ \E s \in DOMAIN pumps : pumps[s].pc # "done"

\* C8: when the device call of write_to_shell or resize_pty fails, the
\* error is returned, the processes map and the output buffers are
\* unchanged, and the tab still maps to the session the call was made on.
C8_FailedIoKeepsSession ==
    [][\A t \in Threads :
            (cmd[t].pc = "io" /\ cmd'[t].pc = "idle" /\ last'.res # "ok")
                => /\ last'.res \in {"Write failed", "Flush failed", "Resize failed"}
                   /\ UNCHANGED <<processes, output_buffers>>
                   /\ cmd[t].id \in DOMAIN processes' /\ processes'[cmd[t].id] = cmd[t].sess]_vars

C8_Witness ==
    /\ last.res \in {"Write failed", "Flush failed", "Resize failed"}
    /\ last.id \in DOMAIN processes /\ last.id \in DOMAIN output_buffers
    /\ output_buffers[last.id] # <<>>

\* ------------------------------------------------------- control plane
\* start_ipc_server (lib.rs 1669-1835) and ipc_response (lib.rs 1658-1666).
LinesRead == workers["k1"].lines + workers["k2"].lines

NewChan == Cardinality(DOMAIN chans) + 1

ReadRequestWhileWaiting(c) ==
    /\ workers[c].pc \in {"read_line", "wait"}
    /\ LinesRead < MaxLines
    /\ chans' = MapInsert(chans, NewChan, [conn |-> c, tx |-> "worker", val |-> "none", rx |-> "open", outcome |-> "none"])
    /\ workers' = [workers EXCEPT ![c].pc = "install", ![c].chan = NewChan, ![c].lines = @ + 1]
    /\ UNCHANGED <<response_tx, mcpEvents, submitted>>
    /\ UNCHANGED <<sessionVars, mcpVars, mainVars>>

\* Worker, lines 1781-1789: read_line returns a line that parses as JSON;
\* tokio::sync::oneshot::channel() makes the reply channel.
ReadRequest(c) ==
    /\ workers[c].pc = "read_line"
    /\ LinesRead < MaxLines
    /\ chans' = MapInsert(chans, NewChan, [conn |-> c, tx |-> "worker", val |-> "none", rx |-> "open", outcome |-> "none"])
    /\ workers' = [workers EXCEPT ![c].pc = "install", ![c].chan = NewChan, ![c].lines = @ + 1]
    /\ UNCHANGED <<response_tx, mcpEvents, submitted>>
    /\ UNCHANGED <<sessionVars, mcpVars, mainVars>>

\* Worker, lines 1781-1782 and 1826: a line that is not JSON is dropped and
\* the next line is read.
ReadGarbage(c) ==
    /\ workers[c].pc = "read_line"
    /\ LinesRead < MaxLines
    /\ workers' = [workers EXCEPT ![c].lines = @ + 1]
    /\ UNCHANGED <<response_tx, chans, mcpEvents, submitted>>
    /\ UNCHANGED <<sessionVars, mcpVars, mainVars>>

\* Worker, line 1781: end of stream or a read error ends the thread.
ReadEof(c) ==
    /\ workers[c].pc = "read_line"
    /\ workers' = [workers EXCEPT ![c].pc = "closed"]
    /\ UNCHANGED <<response_tx, chans, mcpEvents, submitted>>
    /\ UNCHANGED <<sessionVars, mcpVars, mainVars>>

InstallKeepsOccupant(c) ==
    /\ workers[c].pc = "install"
    /\ response_tx' = IF response_tx = 0 THEN workers[c].chan ELSE response_tx
    /\ chans' = [chans EXCEPT ![workers[c].chan].tx = IF response_tx = 0 THEN "stored" ELSE "dropped"]
    /\ workers' = [workers EXCEPT ![c].pc = "emit"]
    /\ UNCHANGED <<mcpEvents, submitted>>
    /\ UNCHANGED <<sessionVars, mcpVars, mainVars>>

\* Worker, lines 1791-1798: *tx_lock = Some(tx); the Sender that was in the
\* slot is dropped.
Install(c) ==
    /\ workers[c].pc = "install"
    /\ response_tx' = workers[c].chan
    /\ chans' = [ch \in DOMAIN chans |->
                    IF ch = workers[c].chan THEN [chans[ch] EXCEPT !.tx = "stored"]
                    ELSE IF ch = response_tx THEN [chans[ch] EXCEPT !.tx = "dropped"]
                    ELSE chans[ch]]
    /\ workers' = [workers EXCEPT ![c].pc = "emit"]
    /\ UNCHANGED <<mcpEvents, submitted>>
    /\ UNCHANGED <<sessionVars, mcpVars, mainVars>>

EmitSkipsInstall(c) ==
    /\ workers[c].pc \in {"install", "emit"}
    /\ mcpEvents' = Append(mcpEvents, workers[c].chan)
    /\ workers' = [workers EXCEPT ![c].pc = "wait", ![c].waited = 0]
    /\ UNCHANGED <<response_tx, chans, submitted>>
    /\ UNCHANGED <<sessionVars, mcpVars, mainVars>>

\* Worker, lines 1800-1804: emit mcp-action; the wait of lines 1806-1813
\* starts.
Emit(c) ==
    /\ workers[c].pc = "emit"
    /\ mcpEvents' = Append(mcpEvents, workers[c].chan)
    /\ workers' = [workers EXCEPT ![c].pc = "wait", ![c].waited = 0]
    /\ UNCHANGED <<response_tx, chans, submitted>>
    /\ UNCHANGED <<sessionVars, mcpVars, mainVars>>

\* One tick passes for every worker inside tokio::time::timeout; the
\* timeout does not let the wait last longer than TIMEOUT_SECS.
Tick ==
    /\ \E c \in Conns : workers[c].pc = "wait"
    /\ \A c \in Conns : workers[c].pc = "wait" => workers[c].waited < TIMEOUT_SECS
    /\ workers' = [c \in Conns |-> IF workers[c].pc = "wait" THEN [workers[c] EXCEPT !.waited = @ + 1] ELSE workers[c]]
    /\ UNCHANGED <<response_tx, chans, mcpEvents, submitted>>
    /\ UNCHANGED <<sessionVars, mcpVars, mainVars>>

ResponseValueForwardsClosed(outcome, v) == IF outcome = "timeout" THEN TimeoutError ELSE v

\* Worker, lines 1815-1818: the value for the reply line, from the result
\* of timeout(rx).
ResponseValue(outcome, v) == IF outcome = "value" THEN v ELSE TimeoutError

EndWait(c, outcome) ==
    /\ chans' = [chans EXCEPT ![workers[c].chan].rx = "closed", ![workers[c].chan].outcome = outcome]
    /\ workers' = [workers EXCEPT ![c].pc = "write",
                                  ![c].response = ResponseValue(outcome, chans[workers[c].chan].val)]
    /\ UNCHANGED <<response_tx, mcpEvents, submitted>>
    /\ UNCHANGED <<sessionVars, mcpVars, mainVars>>

\* Worker, lines 1808-1816: rx yields the value that was sent, Ok(Ok(v)).
WaitValue(c) ==
    /\ workers[c].pc = "wait"
    /\ chans[workers[c].chan].tx = "sent"
    /\ EndWait(c, "value")

WaitClosedSpurious(c) ==
    /\ workers[c].pc = "wait"
    /\ chans[workers[c].chan].tx \in {"dropped", "stored"}
    /\ EndWait(c, "closed")

\* Worker, lines 1808-1817: the Sender was dropped unsent, Ok(Err(RecvError)).
WaitClosed(c) ==
    /\ workers[c].pc = "wait"
    /\ chans[workers[c].chan].tx = "dropped"
    /\ EndWait(c, "closed")

WaitWithoutTimeout(c) ==
    /\ workers[c].pc = "wait"
    /\ FALSE
    /\ EndWait(c, "timeout")

\* Worker, lines 1808-1817: TIMEOUT_SECS passed with the channel still
\* pending, Err(Elapsed).
WaitTimeout(c) ==
    /\ workers[c].pc = "wait"
    /\ chans[workers[c].chan].tx = "stored"
    /\ workers[c].waited = TIMEOUT_SECS
    /\ EndWait(c, "timeout")

\* Worker, lines 1820-1826: write the reply line and a newline, flush,
\* line.clear().
WriteReply(c) ==
    /\ workers[c].pc = "write"
    /\ workers' = [workers EXCEPT ![c].pc = "read_line",
                                  ![c].replies = Append(@, [chan |-> workers[c].chan, line |-> workers[c].response]),
                                  ![c].chan = 0, ![c].response = "none", ![c].waited = 0]
    /\ UNCHANGED <<response_tx, chans, mcpEvents, submitted>>
    /\ UNCHANGED <<sessionVars, mcpVars, mainVars>>

IpcResponseKeepsSlot(v) ==
    /\ submitted' = submitted \cup {v}
    /\ response_tx' = response_tx
    /\ chans' = IF response_tx = 0 THEN chans
                ELSE IF chans[response_tx].rx = "open"
                     THEN [chans EXCEPT ![response_tx].tx = "sent", ![response_tx].val = v]
                     ELSE [chans EXCEPT ![response_tx].tx = "dropped"]
    /\ UNCHANGED <<workers, mcpEvents>>
    /\ UNCHANGED <<sessionVars, mcpVars, mainVars>>

\* ipc_response, lines 1660-1666: take() the slot; send the value on the
\* Sender found there, ignoring a send that fails because the Receiver is
\* gone.
IpcResponse(v) ==
    /\ submitted' = submitted \cup {v}
    /\ response_tx' = 0
    /\ chans' = IF response_tx = 0 THEN chans
                ELSE IF chans[response_tx].rx = "open"
                     THEN [chans EXCEPT ![response_tx].tx = "sent", ![response_tx].val = v]
                     ELSE [chans EXCEPT ![response_tx].tx = "dropped"]
    /\ UNCHANGED <<workers, mcpEvents>>
    /\ UNCHANGED <<sessionVars, mcpVars, mainVars>>

NextIpc ==
    \/ \E c \in Conns : ReadRequest(c)
    \/ \E c \in Conns : ReadGarbage(c)
    \/ \E c \in Conns : ReadEof(c)
    \/ \E c \in Conns : Install(c)
    \/ \E c \in Conns : Emit(c)
    \/ Tick
    \/ \E c \in Conns : WaitValue(c)
    \/ \E c \in Conns : WaitClosed(c)
    \/ \E c \in Conns : WaitTimeout(c)
    \/ \E c \in Conns : WriteReply(c)
    \/ \E v \in Values : IpcResponse(v)

SpecIpc == Init /\ [][NextIpc]_vars

\* The worker threads are scheduled and time passes; clients need not send
\* and the frontend need not call ipc_response.
LiveIpc ==
    /\ SpecIpc
    /\ WF_vars(Tick)
    /\ \A c \in Conns :
        /\ WF_vars(Install(c)) /\ WF_vars(Emit(c)) /\ WF_vars(WriteReply(c))
        /\ WF_vars(WaitValue(c)) /\ WF_vars(WaitClosed(c)) /\ WF_vars(WaitTimeout(c))

\* -------------------------------------------- control-plane properties
\* The reply lines written so far for the request with channel ch, as
\* <<connection, position>>.
RepliesTo(ch) ==
    {p \in Conns \X (1..MaxLines) : p[2] <= Len(workers[p[1]].replies) /\ workers[p[1]].replies[p[2]].chan = ch}

AllReplies == {workers[p[1]].replies[p[2]] : p \in UNION {RepliesTo(ch) : ch \in DOMAIN chans}}

\* C9: every reply line is either the value ipc_response sent on the
\* request's channel, or the synthesized error; the error is synthesized
\* exactly for a wait that ended by the timeout or by the Sender being
\* dropped unsent.
C9_ReplyIsValueOrTimeoutError ==
    \A r \in AllReplies :
        LET ch == chans[r.chan] IN
        \/ ch.outcome = "value" /\ ch.tx = "sent" /\ r.line = ch.val /\ ch.val \in submitted
        \/ ch.outcome = "closed" /\ ch.tx = "dropped" /\ r.line = TimeoutError
        \/ ch.outcome = "timeout" /\ ch.tx # "sent" /\ r.line = TimeoutError

C9_Witness ==
    /\ \E r \in AllReplies : chans[r.chan].outcome = "value" /\ r.line = chans[r.chan].val
    /\ \E r \in AllReplies : chans[r.chan].outcome = "closed" /\ r.line = TimeoutError

\* C10: every request a worker accepted gets exactly one reply line, on
\* its own connection, after a wait of at most TIMEOUT_SECS, also when
\* ipc_response is never called.
C10_EveryRequestGetsOneReply ==
    /\ [](\A ch \in DOMAIN chans :
            /\ Cardinality(RepliesTo(ch)) <= 1
            /\ \A p \in RepliesTo(ch) : p[1] = chans[ch].conn
            /\ workers[chans[ch].conn].waited <= TIMEOUT_SECS)
    /\ \A ch \in 1..MaxLines :
            (ch \in DOMAIN chans) ~> (ch \in DOMAIN chans /\ Cardinality(RepliesTo(ch)) = 1)

C10_Witness ==
    /\ submitted = {}
    /\ \E r \in AllReplies : chans[r.chan].outcome = "timeout" /\ r.line = TimeoutError

\* Channels whose value changes in a step.
Delivered == {ch \in DOMAIN chans : chans'[ch].val # chans[ch].val}

\* C11: ipc_response empties the slot and sends its value on the channel
\* it found there and on no other; a channel is sent at most one value, a
\* value goes to at most one channel per call, and with an empty slot the
\* call changes nothing.
C11_SubmitReplyTakesSlot ==
    [][/\ Cardinality(Delivered) <= 1
       /\ \A ch \in Delivered :
            /\ ch = response_tx /\ response_tx' = 0
            /\ chans[ch].tx = "stored" /\ chans[ch].val = "none"
            /\ chans'[ch].tx = "sent" /\ chans'[ch].val \in submitted'
       /\ (submitted' # submitted) => response_tx' = 0
       /\ (submitted' # submitted /\ response_tx = 0)
            => UNCHANGED <<response_tx, chans, workers, mcpEvents>>]_vars

C11_Witness ==
    /\ Cardinality(submitted) = 2
    /\ response_tx = 0
    /\ Cardinality({ch \in DOMAIN chans : chans[ch].tx = "sent"}) = 1
    /\ Cardinality(DOMAIN chans) = 2

\* The requests read on connection c, as their channels.
Requests(c) == {ch \in DOMAIN chans : chans[ch].conn = c}

\* C12: on one connection, every request that was read, installed or
\* published, other than the one the worker is handling now, already has
\* its reply line written on that connection.
C12_ConnectionIsSequential ==
    \A c \in Conns :
        /\ \A ch \in Requests(c) : ch # workers[c].chan => \E p \in RepliesTo(ch) : p[1] = c
        /\ Cardinality(Requests(c)) <= Len(workers[c].replies) + 1
        /\ \A i \in 1..Len(mcpEvents) : mcpEvents[i] \in DOMAIN chans

C12_Witness ==
    \E c \in Conns :
        /\ Cardinality(Requests(c)) = 2 /\ Len(workers[c].replies) = 1
        /\ workers[c].pc = "wait" /\ response_tx = workers[c].chan

\* The worker of connection c has installed its channel and has not yet
\* ended its wait.
Outstanding(c) == workers[c].pc \in {"emit", "wait"}

\* C13: a worker that installs its channel takes the slot from whatever
\* was in it; and with two requests outstanding, the first one overwritten
\* by the second, the next ipc_response value goes to the second request
\* and not to the first.
C13_SecondInstallGetsReply ==
    [][/\ \A c \in Conns :
            (workers[c].pc = "install" /\ workers'[c].pc = "emit")
                => /\ response_tx' = workers[c].chan
                   /\ chans'[workers[c].chan].tx = "stored"
       /\ \A c1, c2 \in Conns :
            (/\ c1 # c2 /\ Outstanding(c1) /\ Outstanding(c2)
             /\ response_tx = workers[c2].chan
             /\ response_tx' = 0)
                => /\ chans'[workers[c2].chan].tx = "sent"
                   /\ chans'[workers[c2].chan].val \in Values
                   /\ chans'[workers[c1].chan].val = chans[workers[c1].chan].val]_vars

C13_Witness ==
    \E c1, c2 \in Conns :
        /\ c1 # c2 /\ workers[c1].pc = "wait" /\ workers[c2].pc = "wait"
        /\ chans[workers[c1].chan].tx = "dropped" /\ chans[workers[c1].chan].val = "none"
        /\ chans[workers[c2].chan].tx = "sent" /\ response_tx = 0

\* The wait of connection c ends in this step.
WaitEnds(c) == workers[c].pc = "wait" /\ workers'[c].pc = "write"

\* C14: a wait ends only by receiving a value or when TIMEOUT_SECS have
\* passed, also for a worker whose channel was overwritten in the slot.
C14_WaitEndsByValueOrTimeout ==
    [][\A c \in Conns :
            WaitEnds(c) => \/ chans'[workers[c].chan].outcome = "value"
                           \/ workers[c].waited = TIMEOUT_SECS]_vars

\* C14 as amended: a wait ends only by receiving the value sent on its
\* channel, by its Sender having been dropped (overwritten in the slot, or
\* used after the Receiver was gone), or when TIMEOUT_SECS have passed with
\* the Sender still stored; a channel whose Sender was dropped never
\* carries a value, so the overwritten worker reports the synthesized error.
C14_WaitEndsByValueDropOrTimeout ==
    [][\A c \in Conns :
            WaitEnds(c) =>
                LET ch == workers[c].chan IN
                \/ /\ chans'[ch].outcome = "value" /\ chans[ch].tx = "sent"
                   /\ workers'[c].response = chans[ch].val
                \/ /\ chans'[ch].outcome = "closed" /\ chans[ch].tx = "dropped"
                   /\ chans[ch].val = "none" /\ workers'[c].response = TimeoutError
                \/ /\ chans'[ch].outcome = "timeout" /\ chans[ch].tx = "stored"
                   /\ workers[c].waited = TIMEOUT_SECS /\ workers'[c].response = TimeoutError]_vars

C14_Witness ==
    \E c \in Conns :
        /\ workers[c].pc = "write" /\ workers[c].waited = 0
        /\ chans[workers[c].chan].outcome = "closed"
        /\ response_tx \notin {0, workers[c].chan}
        /\ workers[c].response = TimeoutError

\* ------------------------------------------------ tool protocol front end
\* run_mcp_server (mcp/server.rs), the catalog (mcp/tools.rs) and the
\* parameter structs (mcp/types.rs).

\* Names of get_tools(), in its order.
ToolCatalog ==
    <<"open_tab", "close_tab", "focus_tab", "get_tabs", "run_command", "get_output",
      "set_theme", "get_themes", "add_ssh", "remove_ssh", "list_ssh", "connect_ssh",
      "get_state", "show_window", "hide_window", "split_pane">>

ListedNames == {ToolCatalog[i] : i \in 1..Len(ToolCatalog)}

ToolNamesWithoutSplitPane ==
    {"open_tab", "close_tab", "focus_tab", "get_tabs", "run_command", "get_output",
     "set_theme", "get_themes", "add_ssh", "remove_ssh", "list_ssh", "connect_ssh",
     "get_state", "show_window", "hide_window"}

\* The names execute_tool (server.rs 114-130) has an arm for.
ToolNames ==
    {"open_tab", "close_tab", "focus_tab", "get_tabs", "run_command", "get_output",
     "set_theme", "get_themes", "add_ssh", "remove_ssh", "list_ssh", "connect_ssh",
     "get_state", "show_window", "hide_window", "split_pane"}

\* "required" of each tool's input_schema in get_tools().
SchemaRequired(name) ==
    CASE name \in {"close_tab", "focus_tab", "get_output"} -> {"tab_id"}
      [] name = "run_command" -> {"tab_id", "command"}
      [] name = "set_theme" -> {"theme"}
      [] name = "add_ssh" -> {"name", "host", "user"}
      [] name \in {"remove_ssh", "connect_ssh"} -> {"id"}
      [] name = "split_pane" -> {"tab_id", "direction"}
      [] OTHER -> {}

\* Tools whose handler deserializes its arguments into a struct of
\* types.rs, and the fields of that struct that have no serde default.
HasParamsStruct(name) ==
    name \in {"open_tab", "close_tab", "focus_tab", "run_command", "get_output",
              "set_theme", "add_ssh", "remove_ssh", "connect_ssh"}

StructRequired(name) ==
    CASE name \in {"close_tab", "focus_tab", "get_output"} -> {"tab_id"}
      [] name = "run_command" -> {"tab_id", "command"}
      [] name = "set_theme" -> {"theme"}
      [] name = "add_ssh" -> {"name", "host", "user"}
      [] name \in {"remove_ssh", "connect_ssh"} -> {"id"}
      [] OTHER -> {}

\* serde_json::from_value(args) into the tool's struct: a JSON object that
\* has every field without a default; null is not a struct.
Deserializes(name, args) == ~args.null /\ StructRequired(name) \subseteq args.fields

\* Argument objects, as the set of the fields they hold.
Object(fields) == [null |-> FALSE, fields |-> fields]

\* The arguments a client sends with a tool name: none, an empty object, the
\* fields the schema requires, and for run_command also wait_for_output.
ArgsFor(name) ==
    {NullArgs, Object({}), Object(SchemaRequired(name))}
        \cup (IF name = "run_command" THEN {Object({"tab_id", "command", "wait_for_output"})} ELSE {})

\* The value a client gives to a field.
ArgValue(field) ==
    CASE field = "tab_id" -> "tab-1"
      [] field = "theme" -> "dracula"
      [] field = "name" -> "box"
      [] field = "id" -> "ssh-1"
      [] OTHER -> "x"

\* JsonRpcResponse::success, JsonRpcResponse::error (types.rs 31-53).
Success(id, result) == [id |-> id, kind |-> "result", code |-> 0, message |-> <<>>, result |-> result]
Error(id, code, message) == [id |-> id, kind |-> "error", code |-> code, message |-> message, result |-> NoResult]

\* ToolResult::text, ToolResult::error (types.rs 115-133); a text is kept
\* as the pieces format! puts together.
ToolText(text) == [kind |-> "tool", text |-> text, isError |-> FALSE]
ToolError(text) == [kind |-> "tool", text |-> text, isError |-> TRUE]

Contains(text, piece) == \E i \in 1..Len(text) : text[i] = piece

\* Lines read from stdin in one run of the front end.
MaxInput == 2

\* The text of a serde_json or std::io error, which the code only formats.
SerdeError == "<serde error>"
IoError == "<io error>"

\* A line of stdin: unreadable (lines() yields Err), empty, not JSON, JSON
\* that is not a JsonRpcRequest (no "method"), or a request.  params is
\* "null" (absent), "object" (no "name") or "call" ({name, arguments}).
Line(kind, id, method, params, name, args) ==
    [kind |-> kind, id |-> id, method |-> method, params |-> params, name |-> name, args |-> args]

Ids == {"none", "1"}
Methods == {"initialize", "initialized", "tools/list", "tools/call", "ping", "resources/list"}

\* Tool names a client may send that execute_tool has no arm for.
UnknownNames == {"bogus_tool", "OPEN_TAB"}

Lines ==
    {Line(k, "none", "none", "null", "none", NullArgs) : k \in {"unreadable", "empty", "garbage", "json"}}
    \cup {Line("request", id, m, p, "none", NullArgs) : id \in Ids, m \in Methods, p \in {"null", "object"}}
    \cup UNION {{Line("request", id, "tools/call", "call", name, a) : id \in Ids, a \in ArgsFor(name)} :
                    name \in ListedNames \cup ToolNames \cup UnknownNames}

\* Reply lines the control plane may send, as JSON objects (key -> string).
TimeoutReply == [k \in {"error"} |-> "Timeout or no response"]
FullReply ==
    [k \in {"tab_id", "output", "id", "pane_id"} |->
        CASE k = "tab_id" -> "tab-7" [] k = "output" -> "hi" [] k = "id" -> "ssh-9" [] OTHER -> "pane-2"]
EmptyReply == [k \in {} |-> ""]
AppReplies == {TimeoutReply, FullReply, EmptyReply}

\* response.get(key).and_then(|v| v.as_str()).unwrap_or(default)
Get(reply, key, default) == IF key \in DOMAIN reply THEN reply[key] ELSE default

\* serde_json::to_string_pretty(&response)
Pretty(reply) ==
    CASE reply = TimeoutReply -> "{ \"error\": \"Timeout or no response\" }"
      [] reply = EmptyReply -> "{}"
      [] OTHER -> "{ \"id\": \"ssh-9\", \"output\": \"hi\", \"pane_id\": \"pane-2\", \"tab_id\": \"tab-7\" }"

\* The Ok arm of each tool_* function (server.rs 223-427).
Render(name, args, reply) ==
    CASE name = "open_tab" ->
            <<"Opened new ", IF "shell" \in args.fields THEN ArgValue("shell") ELSE "wsl",
              " tab with ID: ", Get(reply, "tab_id", "unknown")>>
      [] name = "close_tab" -> <<"Closed tab: ", ArgValue("tab_id")>>
      [] name = "focus_tab" -> <<"Focused tab: ", ArgValue("tab_id")>>
      [] name \in {"get_tabs", "list_ssh", "get_state"} -> <<Pretty(reply)>>
      [] name = "run_command" ->
            IF "wait_for_output" \in args.fields THEN <<Get(reply, "output", "")>>
            ELSE <<"Command sent to tab: ", ArgValue("tab_id")>>
      [] name = "get_output" -> <<Get(reply, "output", "")>>
      [] name = "set_theme" -> <<"Theme changed to: ", ArgValue("theme")>>
      [] name = "add_ssh" ->
            <<"Added SSH connection '", ArgValue("name"), "' with ID: ", Get(reply, "id", "unknown")>>
      [] name = "remove_ssh" -> <<"Removed SSH connection: ", ArgValue("id")>>
      [] name = "connect_ssh" -> <<"SSH connection opened in tab: ", Get(reply, "tab_id", "unknown")>>
      [] name = "show_window" -> <<"Window shown">>
      [] name = "hide_window" -> <<"Window hidden">>
      [] OTHER -> <<"Pane split, new pane ID: ", Get(reply, "pane_id", "unknown")>>

\* tool_get_themes (server.rs 324-335): the list the front end holds.
Themes ==
    <<"catppuccin-mocha", "dracula", "nord", "one-dark", "gruvbox-dark",
      "tokyo-night", "solarized-dark", "vs-code-dark", "monokai", "github-dark",
      "cyberpunk", "matrix", "synthwave", "vaporwave", "neon-tokyo",
      "hacker", "inferno", "toxic", "ultraviolet", "bloodmoon", "abyss",
      "rose-pine", "everforest", "kanagawa", "palenight", "material-ocean",
      "horizon", "andromeda", "moonlight", "night-owl", "poimandres", "vitesse-dark">>

\* execute_tool (server.rs 111-133) up to the call of send_to_app: the
\* names without a handler, get_themes (a fixed list), and the handlers
\* whose from_value(args) fails end here; "send" stands for the handlers
\* that go on to send_to_app.
ExecuteToolLocal(name, args) ==
    IF name \notin ToolNames THEN ToolError(<<"Unknown tool: ", name>>)
    ELSE IF name = "get_themes" THEN ToolText(Themes)
    ELSE IF HasParamsStruct(name) /\ ~Deserializes(name, args) THEN ToolError(<<"Invalid params: ", SerdeError>>)
    ELSE [kind |-> "send", text |-> <<>>, isError |-> FALSE]

\* handle_call_tool (server.rs 95-109): params must be {name, arguments}.
CallToolParamsOk(l) == l.params = "call"

\* The line is a tools/call that reaches send_to_app.
NeedsApp(l) ==
    /\ l.kind = "request" /\ l.method = "tools/call" /\ CallToolParamsOk(l)
    /\ ExecuteToolLocal(l.name, l.args).kind = "send"

HandleRequestRejectsUnknownTool(l) ==
    CASE l.method = "initialize" -> Success(l.id, [kind |-> "initialize", text |-> <<"2024-11-05", "wsl-terminal", "0.4.0">>, isError |-> FALSE])
      [] l.method = "initialized" -> Success("none", [kind |-> "empty", text |-> <<>>, isError |-> FALSE])
      [] l.method = "tools/list" -> Success(l.id, [kind |-> "tools", text |-> ToolCatalog, isError |-> FALSE])
      [] l.method = "tools/call" ->
            IF CallToolParamsOk(l) /\ l.name \in ToolNames THEN Success(l.id, ExecuteToolLocal(l.name, l.args))
            ELSE Error(l.id, -32602, <<"Invalid params: ", SerdeError>>)
      [] l.method = "ping" -> Success(l.id, [kind |-> "empty", text |-> <<>>, isError |-> FALSE])
      [] OTHER -> Error(l.id, -32601, <<"Method not found: ", l.method>>)

\* handle_request (server.rs 51-66) for the requests answered without
\* the control plane.
HandleRequest(l) ==
    CASE l.method = "initialize" -> Success(l.id, [kind |-> "initialize", text |-> <<"2024-11-05", "wsl-terminal", "0.4.0">>, isError |-> FALSE])
      [] l.method = "initialized" -> Success("none", [kind |-> "empty", text |-> <<>>, isError |-> FALSE])
      [] l.method = "tools/list" -> Success(l.id, [kind |-> "tools", text |-> ToolCatalog, isError |-> FALSE])
      [] l.method = "tools/call" ->
            IF CallToolParamsOk(l) THEN Success(l.id, ExecuteToolLocal(l.name, l.args))
            ELSE Error(l.id, -32602, <<"Invalid params: ", SerdeError>>)
      [] l.method = "ping" -> Success(l.id, [kind |-> "empty", text |-> <<>>, isError |-> FALSE])
      [] OTHER -> Error(l.id, -32601, <<"Method not found: ", l.method>>)

\* run_mcp_server, lines 27-42: serde_json::from_str::<JsonRpcRequest>.
ParsesAsRequest(l) == l.kind = "request"

ResponseTo(l) ==
    IF ParsesAsRequest(l) THEN HandleRequest(l)
    ELSE Error("none", -32700, <<"Parse error: ", SerdeError>>)

\* What send_to_app did on its socket: an entry per step, with the action
\* of the request line for "send".
NetEvent(ev, action) == [ev |-> ev, action |-> action]

\* run_mcp_server, lines 44-47: write the response line and flush; the
\* loop goes back to reading.
WriteResponse(response) ==
    /\ out' = response
    /\ answered' = Append(answered, [n |-> fe'.n, code |-> response.code])

McpReadDuringCall(l) ==
    /\ fe.pc \in {"read", "recv"}
    /\ fe.n < MaxInput
    /\ \E up \in BOOLEAN :
         fe' = [pc |-> IF NeedsApp(l) THEN "connect" ELSE "read", n |-> fe.n + 1, line |-> l, listening |-> up]
    /\ net' = <<>>
    /\ IF l.kind \in {"unreadable", "empty"} \/ NeedsApp(l)
       THEN UNCHANGED <<out, answered>>
       ELSE WriteResponse(ResponseTo(l))
    /\ UNCHANGED <<sessionVars, ipcVars, mainVars>>

McpReadStopsOnBadLine(l) ==
    /\ fe.pc = "read"
    /\ fe.n < MaxInput
    /\ \E up \in BOOLEAN :
         fe' = [pc |-> IF NeedsApp(l) THEN "connect" ELSE IF l.kind = "garbage" THEN "exited" ELSE "read",
                n |-> fe.n + 1, line |-> l, listening |-> up]
    /\ net' = <<>>
    /\ IF l.kind \in {"unreadable", "empty"} \/ NeedsApp(l)
       THEN UNCHANGED <<out, answered>>
       ELSE WriteResponse(ResponseTo(l))
    /\ UNCHANGED <<sessionVars, ipcVars, mainVars>>

\* run_mcp_server, lines 14-47, for a line l: an unreadable or empty line
\* is skipped; a line answered without the control plane is answered in
\* this step; a tool call that needs the control plane goes on to connect.
\* fe.listening is the environment while the line is handled: whether the
\* application's socket accepts connections.
McpRead(l) ==
    /\ fe.pc = "read"
    /\ fe.n < MaxInput
    /\ \E up \in BOOLEAN :
         fe' = [pc |-> IF NeedsApp(l) THEN "connect" ELSE "read", n |-> fe.n + 1, line |-> l, listening |-> up]
    /\ net' = <<>>
    /\ IF l.kind \in {"unreadable", "empty"} \/ NeedsApp(l)
       THEN UNCHANGED <<out, answered>>
       ELSE WriteResponse(ResponseTo(l))
    /\ UNCHANGED <<sessionVars, ipcVars, mainVars>>

\* run_mcp_server, line 14: lines() ends at the end of stdin and the
\* function returns.
McpEof ==
    /\ fe.pc = "read"
    /\ fe' = [fe EXCEPT !.pc = "exited"]
    /\ UNCHANGED <<net, out, answered>>
    /\ UNCHANGED <<sessionVars, ipcVars, mainVars>>

FinishCallRaisesToolErrors(result) ==
    /\ fe' = [fe EXCEPT !.pc = "read"]
    /\ WriteResponse(IF result.isError THEN Error(fe.line.id, -32603, result.text)
                     ELSE Success(fe.line.id, result))

\* handle_call_tool, line 108, after the tool_* function returned result.
FinishCall(result) ==
    /\ fe' = [fe EXCEPT !.pc = "read"]
    /\ WriteResponse(Success(fe.line.id, result))

McpConnectRetries ==
    /\ fe.pc = "connect"
    /\ \/ /\ fe.listening
          /\ net' = Append(net, NetEvent("connect", ""))
          /\ fe' = [fe EXCEPT !.pc = "send"]
          /\ UNCHANGED <<out, answered>>
       \/ /\ ~fe.listening /\ net = <<>>
          /\ net' = Append(net, NetEvent("connect_failed", ""))
          /\ UNCHANGED <<fe, out, answered>>
       \/ /\ ~fe.listening /\ net # <<>>
          /\ net' = Append(net, NetEvent("connect_failed", ""))
          /\ FinishCall(ToolError(<<"Connection failed: ", IoError, ". Is WSL Terminal running?">>))
    /\ UNCHANGED <<sessionVars, ipcVars, mainVars>>

\* send_to_app, lines 178 and 205: UnixStream::connect.
McpConnect ==
    /\ fe.pc = "connect"
    /\ \/ /\ fe.listening
          /\ net' = Append(net, NetEvent("connect", ""))
          /\ fe' = [fe EXCEPT !.pc = "send"]
          /\ UNCHANGED <<out, answered>>
       \/ /\ ~fe.listening
          /\ net' = Append(net, NetEvent("connect_failed", ""))
          /\ FinishCall(ToolError(<<"Connection failed: ", IoError, ". Is WSL Terminal running?">>))
    /\ UNCHANGED <<sessionVars, ipcVars, mainVars>>

\* send_to_app, lines 180-194: the request line {action, payload}, a
\* newline, flush; a failure returns Err and the stream is dropped.
McpSend ==
    /\ fe.pc = "send"
    /\ \/ /\ net' = Append(net, NetEvent("send", fe.line.name))
          /\ fe' = [fe EXCEPT !.pc = "recv"]
          /\ UNCHANGED <<out, answered>>
       \/ \E e \in {"Write failed: ", "Write newline failed: ", "Flush failed: "} :
            /\ net' = Append(net, NetEvent("close", ""))
            /\ FinishCall(ToolError(<<e, IoError>>))
    /\ UNCHANGED <<sessionVars, ipcVars, mainVars>>

\* send_to_app, lines 196-203, and the tool_* function's match: read_line
\* gives a reply object, or a line that is not JSON, or nothing at the end
\* of the stream (the empty string is not JSON either), or fails; the
\* stream is dropped.
McpRecv ==
    /\ fe.pc = "recv"
    /\ \/ \E reply \in AppReplies :
            /\ net' = net \o <<NetEvent("recv", ""), NetEvent("close", "")>>
            /\ FinishCall(ToolText(Render(fe.line.name, fe.line.args, reply)))
       \/ \E got \in {"recv", "eof"} :
            /\ net' = net \o <<NetEvent(got, ""), NetEvent("close", "")>>
            /\ FinishCall(ToolError(<<"Parse response failed: ", SerdeError>>))
       \/ /\ net' = Append(net, NetEvent("close", ""))
          /\ FinishCall(ToolError(<<"Read failed: ", IoError>>))
    /\ UNCHANGED <<sessionVars, ipcVars, mainVars>>

NextMcp ==
    \/ \E l \in Lines : McpRead(l)
    \/ McpEof
    \/ McpConnect
    \/ McpSend
    \/ McpRecv

SpecMcp == Init /\ [][NextMcp]_vars

\* ------------------------------------------------ front-end properties
\* The last line on stdout is the response to the line in fe.line.
Responded ==
    /\ fe.pc \in {"read", "exited"}
    /\ answered # <<>> /\ answered[Len(answered)].n = fe.n

\* fe.line is a tools/call request whose params are {name, arguments}.
IsToolCall == fe.line.kind = "request" /\ fe.line.method = "tools/call" /\ fe.line.params = "call"

\* Arguments that do not fit the tool: the tool's struct of types.rs does
\* not deserialize from them, or a field its schema of tools.rs lists as
\* required is missing.
BadArguments(name, args) ==
    \/ HasParamsStruct(name) /\ ~Deserializes(name, args)
    \/ ~(SchemaRequired(name) \subseteq args.fields)

\* C15: the response to a tools/call with a name outside the catalog is a
\* JSON-RPC success whose result is an error block with the name in its
\* text, whatever the arguments.
C15_UnknownToolIsToolError ==
    (Responded /\ IsToolCall /\ fe.line.name \notin ToolNames)
        => /\ out.kind = "result" /\ out.code = 0 /\ out.id = fe.line.id
           /\ out.result.kind = "tool" /\ out.result.isError
           /\ Contains(out.result.text, fe.line.name)

C15_Witness ==
    /\ Responded /\ IsToolCall /\ fe.line.name = "OPEN_TAB" /\ ~fe.line.args.null
    /\ out.result.isError /\ fe.n = 2

\* C16: the response to a tools/call for a catalog tool whose arguments do
\* not fit the tool's expected shape is a JSON-RPC error with code -32602,
\* and the call touches the control-plane socket not at all.
C16_BadArgumentsAreInvalidParams ==
    (Responded /\ IsToolCall /\ fe.line.name \in ToolNames
        /\ BadArguments(fe.line.name, fe.line.args))
        => out.kind = "error" /\ out.code = -32602 /\ net = <<>>

\* Number of the socket events of the current call that are in evs.
Count(evs) == Cardinality({i \in DOMAIN net : net[i].ev \in evs})

\* fe.line is a tools/call for a catalog tool with arguments that fit it.
ValidCall == IsToolCall /\ fe.line.name \in ToolNames /\ ~BadArguments(fe.line.name, fe.line.args)

\* The socket events of one complete round trip for the tool name.
RoundTrip(name) ==
    <<NetEvent("connect", ""), NetEvent("send", name), NetEvent("recv", ""), NetEvent("close", "")>>

\* The result on stdout is one of send_to_app's Err strings.
TransportFailed ==
    /\ out.kind = "result" /\ out.result.isError
    /\ out.result.text[1] \in {"Connection failed: ", "Write failed: ", "Write newline failed: ",
                               "Flush failed: ", "Read failed: ", "Parse response failed: "}

\* C17 as stated: every answered tools/call for a catalog tool with valid
\* arguments has made exactly one connection attempt and, unless the
\* transport failed, exactly one complete round trip: never none.
C17_EveryToolOneRoundTrip ==
    (Responded /\ ValidCall)
        => /\ Count({"connect", "connect_failed"}) = 1
           /\ ~TransportFailed => net = RoundTrip(fe.line.name)

\* C17, amended: get_themes never touches the socket; every other catalog
\* tool with valid arguments makes exactly one connection attempt and,
\* unless the transport failed, exactly one complete round trip; and no
\* call ever makes a second attempt, sends a second request line or a
\* line with another action, or reads a second reply line.
C17_OneRoundTripExceptGetThemes ==
    /\ Count({"connect", "connect_failed"}) <= 1
    /\ Count({"send"}) <= 1 /\ Count({"recv", "eof"}) <= 1
    /\ \A i \in DOMAIN net : net[i].ev = "send" => net[i].action = fe.line.name
    /\ (Responded /\ ValidCall /\ fe.line.name # "get_themes")
          => /\ Count({"connect", "connect_failed"}) = 1
             /\ ~TransportFailed => net = RoundTrip(fe.line.name)
    /\ (Responded /\ IsToolCall /\ fe.line.name = "get_themes") => net = <<>>

C17_Witness ==
    /\ Responded /\ ValidCall /\ fe.line.name = "run_command" /\ fe.n = 2
    /\ net = RoundTrip("run_command") /\ ~out.result.isError

\* The methods handle_request has an arm for.
KnownMethods == {"initialize", "initialized", "tools/list", "tools/call", "ping"}

\* C18: a response carries code -32700 exactly when its line is not valid
\* JSON, and code -32601 exactly when its line is a well-formed request
\* with a method outside the known ones.
C18_ParseAndMethodCodes ==
    Responded =>
        /\ (out.kind = "error" /\ out.code = -32700) <=> fe.line.kind = "garbage"
        /\ (out.kind = "error" /\ out.code = -32601)
              <=> (fe.line.kind = "request" /\ fe.line.method \notin KnownMethods)

\* C19: the loop ends only in a step that finds the end of stdin: a step
\* that takes a line, good or bad, leaves the loop reading or inside the
\* tool call of that line, with the line's own response on stdout when it
\* is answered at once; a tool call, failed or not, ends back at reading.
C19_LoopEndsOnlyAtEndOfInput ==
    [][/\ (fe.pc # "exited" /\ fe'.pc = "exited") => (fe.pc = "read" /\ fe'.n = fe.n)
       /\ (fe'.n = fe.n + 1) =>
             /\ fe'.pc = IF NeedsApp(fe'.line) THEN "connect" ELSE "read"
             /\ (~NeedsApp(fe'.line) /\ fe'.line.kind \notin {"unreadable", "empty"})
                   => out' = ResponseTo(fe'.line)
       /\ (fe.pc \in {"connect", "send", "recv"}) => fe'.pc \in {"send", "recv", "read"}
       /\ (fe.pc = "exited") => fe'.pc = "exited"]_vars

C19_Witness ==
    /\ fe.pc = "exited" /\ fe.n = 2 /\ Len(answered) = 2
    /\ answered[1] = [n |-> 1, code |-> -32700]
    /\ answered[2] = [n |-> 2, code |-> 0]
    /\ fe.line.method = "tools/list" /\ out.result.kind = "tools"

\* The end of the text send_to_app gives a failed connect.
IsRunningHint == ". Is WSL Terminal running?"

\* The front end has not left its loop with the call of fe.line unanswered.
CallSurvived == (fe.pc = "exited" /\ IsToolCall) => Responded

\* C20 as stated: with the application's socket not listening, an answered
\* tools/call for any catalog tool with valid arguments is a JSON-RPC
\* success whose result is an error block holding the hint.
C20_UnreachableIsToolErrorForEveryTool ==
    /\ CallSurvived
    /\ (Responded /\ ValidCall /\ ~fe.listening)
          => /\ out.kind = "result" /\ out.id = fe.line.id
             /\ out.result.isError /\ Contains(out.result.text, IsRunningHint)

\* C20, amended: that holds for every catalog tool except get_themes,
\* whose answer is its built-in list whether or not the socket listens;
\* in no case is the answer a JSON-RPC error or the loop left.
C20_UnreachableIsToolErrorExceptGetThemes ==
    /\ CallSurvived
    /\ (Responded /\ ValidCall /\ ~fe.listening) => (out.kind = "result" /\ out.id = fe.line.id)
    /\ (Responded /\ ValidCall /\ ~fe.listening /\ fe.line.name # "get_themes")
          => /\ out.result.isError /\ Contains(out.result.text, IsRunningHint)
             /\ net = <<NetEvent("connect_failed", "")>>
    /\ (Responded /\ IsToolCall /\ fe.line.name = "get_themes")
          => out = Success(fe.line.id, ToolText(Themes))

C20_Witness ==
    /\ Responded /\ ValidCall /\ ~fe.listening /\ fe.pc = "read" /\ fe.n = 2
    /\ fe.line.name = "split_pane" /\ fe.line.args = Object(SchemaRequired("split_pane"))
    /\ out.result.isError /\ answered[1].code = 0

\* The front end is inside send_to_app for the tool call of fe.line.
InCall(pc) == pc \in {"connect", "send", "recv"}

\* C21: every line read that is not empty gets exactly one line on stdout,
\* written before the next line is read: at once, or at the end of its
\* tool call; an empty line and the end of input write nothing; and the
\* line written for `initialized` is a success.
C21_OneResponsePerLineInOrder ==
    [][/\ (fe'.n = fe.n + 1 /\ fe'.line.kind # "empty") =>
             /\ fe.pc = "read"
             /\ IF InCall(fe'.pc) THEN answered' = answered
                ELSE /\ answered' = Append(answered, [n |-> fe'.n, code |-> out'.code])
                     /\ (fe'.line.kind = "request" /\ fe'.line.method = "initialized")
                           => out'.kind = "result"
       /\ (fe'.n = fe.n + 1 /\ fe'.line.kind = "empty") => answered' = answered
       /\ (fe'.n = fe.n /\ InCall(fe.pc)) =>
             IF InCall(fe'.pc) THEN answered' = answered
             ELSE fe'.pc = "read" /\ answered' = Append(answered, [n |-> fe.n, code |-> out'.code])
       /\ (fe'.n = fe.n /\ ~InCall(fe.pc)) => answered' = answered]_vars

\* ----------------------------------------------------------- entry point
\* main (main.rs 6-25).  The command line is held as the set of the flags
\* on it, which is all that args.contains looks at.
Flags == {"--mcp", "--help", "-h"}
Argvs == SUBSET Flags

\* main.rs 9-24: the if / else if / else over args.contains.
EntryMode(a) ==
    IF "--mcp" \in a THEN "mcp"
    ELSE IF "--help" \in a \/ "-h" \in a THEN "help"
    ELSE "gui"

\* main with the flags a: run_mcp_server, or the usage text, or run().
Main(a) ==
    /\ mode = "start"
    /\ argv' = a
    /\ mode' = EntryMode(a)
    /\ UNCHANGED <<sessionVars, ipcVars, mcpVars>>

\* The process from its start: main, and the front end when main called it.
NextMain ==
    \/ \E a \in Argvs : Main(a)
    \/ mode = "mcp" /\ \E l \in Lines : McpRead(l)
    \/ mode = "mcp" /\ McpEof
    \/ mode = "mcp" /\ McpConnect
    \/ mode = "mcp" /\ McpSend
    \/ mode = "mcp" /\ McpRecv

SpecMain == Init /\ [][NextMain]_vars

\* C22: once main has chosen, a help flag on the command line means the
\* usage text and neither mode, with or without --mcp; without a help
\* flag, --mcp means the front end and its absence the interactive UI.
C22_HelpWinsOverMode ==
    mode # "start" =>
        mode = (IF "--help" \in argv \/ "-h" \in argv THEN "help"
                ELSE IF "--mcp" \in argv THEN "mcp" ELSE "gui")

\* ------------------------------------------------- reader properties
\* Reader threads, other than s, that hold a chunk read for the tab of s
\* before the chunk of s was read, and not yet emitted.
ReadEarlier(s) ==
    {r \in DOMAIN pumps \ {s} :
        pumps[r].tab = pumps[s].tab /\ pumps[r].pc = "emit" /\ pumps[r].stamp < pumps[s].stamp}

\* C23: each event published for a tab carries the oldest chunk read for
\* that tab and not yet published, added at the end of the tab's events:
\* the events of a tab are its chunks in the order they were read.
C23_EventsInReadOrder ==
    [][\A s \in DOMAIN pumps :
            (pumps[s].pc = "emit" /\ pumps'[s].pc # "emit")
                => /\ emitted'[pumps[s].tab] = emitted[pumps[s].tab] \o Utf8Lossy(pumps[s].chunk)
                   /\ ReadEarlier(s) = {}]_vars

\* C24: while the write, flush or resize call of a command is executing
\* on a session's pty, no thread holds the processes lock.
C24_NoLockAcrossDeviceIO ==
    \A t \in Threads : cmd[t].pc = "io" => procLock = "none"

\* C25: every byte appended to the buffer now stored under a tab was
\* appended by the reader thread of the session whose spawn created that
\* buffer.
C25_OnlyOwnReaderAppends ==
    \A id \in DOMAIN output_buffers :
        \A i \in 1..Len(appended[id]) : appended[id][i][1] = owner[id]

\* A step of kill_shell on the tab: the removal of its processes entry or
\* of its buffer.
KillStep(id) ==
    \E t \in Threads :
        \/ cmd[t].pc = "idle" /\ cmd'[t].op = "kill" /\ cmd'[t].id = id
        \/ cmd[t].op = "kill" /\ cmd[t].id = id /\ cmd'[t].pc = "idle"

\* A reader thread extends or trims a buffer in this step.
ReaderStep == \E s \in DOMAIN pumps : pumps[s].pc \in {"append", "trim"} /\ pumps'[s].pc # pumps[s].pc

\* C26: a step that is not a step of kill_shell on the tab leaves the
\* tab's entry in the processes map as it is, and leaves its buffer in
\* place, changed by reader threads only.
C26_OnlyKillRemoves ==
    [][\A id \in TabIds :
            ~KillStep(id) =>
                /\ (id \in DOMAIN processes
                        => id \in DOMAIN processes' /\ processes'[id] = processes[id])
                /\ (id \in DOMAIN output_buffers
                        => /\ id \in DOMAIN output_buffers'
                           /\ (output_buffers'[id] # output_buffers[id] => ReaderStep))]_vars

\* Session s is the one stored under its tab.
Registered(s) == pumps[s].tab \in DOMAIN processes /\ processes[pumps[s].tab] = s

\* C27: the step in which a reader thread ends changes neither the
\* processes map nor any buffer; an ended reader thread stays ended; while
\* its session is registered, write_to_shell on the tab still goes to the
\* device; and the session leaves the processes map, and its buffer is
\* put aside, in a step of kill_shell on its tab only.
C27_DeadReaderLeavesSession ==
    [][\A s \in DOMAIN pumps :
            /\ (pumps[s].pc # "done" /\ pumps'[s].pc = "done") => UNCHANGED <<processes, output_buffers>>
            /\ (pumps[s].pc = "done") =>
                  /\ pumps'[s] = pumps[s]
                  /\ (Registered(s) /\ last'.op = "write" /\ last'.id = pumps[s].tab)
                        => \E t \in Threads : cmd[t].pc = "io" /\ cmd[t].sess = s
                  /\ (Registered(s) /\ ~KillStep(pumps[s].tab)) =>
                        /\ Registered(s)'
                        /\ (pumps[s].tab \in DOMAIN output_buffers) =>
                              /\ pumps[s].tab \in DOMAIN output_buffers'
                              /\ (output_buffers'[pumps[s].tab] # output_buffers[pumps[s].tab]
                                    => ReaderStep)]_vars

\* C28: a reader thread that has read a chunk first publishes it under
\* its tab, the buffers untouched, and only then goes on to append it; and
\* when its session is the one registered under the tab, the append finds
\* the tab's buffer and adds the whole chunk at its end.
C28_PublishThenAppend ==
    [][\A s \in DOMAIN pumps :
            LET tab == pumps[s].tab  chunk == pumps[s].chunk IN
            /\ (pumps[s].pc = "emit" /\ pumps'[s].pc # "emit") =>
                  /\ pumps'[s].pc = "append" /\ pumps'[s].chunk = chunk
                  /\ emitted'[tab] = emitted[tab] \o Utf8Lossy(chunk)
                  /\ UNCHANGED <<output_buffers, appended>>
            /\ (pumps[s].pc # "append" /\ pumps'[s].pc = "append") => pumps[s].pc = "emit"
            /\ (pumps[s].pc = "read" /\ pumps'[s].pc # "read") => pumps'[s].pc \in {"emit", "done"}
            /\ (pumps[s].pc = "append" /\ pumps'[s].pc # "append" /\ Registered(s)) =>
                  /\ tab \in DOMAIN output_buffers
                  /\ output_buffers'[tab] = output_buffers[tab] \o chunk
                  /\ appended'[tab] = appended[tab] \o Tagged(s, chunk)]_vars

C28_Witness ==
    \E s \in DOMAIN pumps :
        /\ Registered(s) /\ pumps[s].pc = "read" /\ pumps[s].pos = READ_CHUNK
        /\ emitted[pumps[s].tab] = Utf8Lossy(PtyBytes(s, 0, READ_CHUNK))
        /\ appended[pumps[s].tab] = Tagged(s, PtyBytes(s, 0, READ_CHUNK))
        /\ output_buffers[pumps[s].tab] = PtyBytes(s, 0, READ_CHUNK)

\* ------------------------------------------ control plane, continued
\* The worker of connection c publishes the event of its request.
Publishes(c) == workers[c].pc # "wait" /\ workers'[c].pc = "wait"

\* No request has installed its channel over that of connection c: the
\* Sender of c's request was not dropped (while c's Receiver is open, only
\* the overwrite of the slot drops a Sender).
NotOverwritten(c) == chans[workers[c].chan].tx # "dropped"

C30_BuffersMatchRegistry ==
    (\A id \in TabIds : Mutating(id) = {}) => DOMAIN output_buffers = DOMAIN processes

\* Requests are read from connection c alone.
SingleConnection(c) == \A d \in Conns \ {c} : workers[d].lines = 0

\* The event of the request on channel ch is published and its wait has not
\* ended.
Awaited(ch) == workers[chans[ch].conn].pc = "wait" /\ workers[chans[ch].conn].chan = ch

\* C31: with requests from one connection only, a value reaches a
\* request's channel only while that request is waiting, its event
\* published and its wait not ended; a value submitted at any other time,
\* such as one that is late for a request that timed out, reaches no
\* request.
C31_ValueSubmittedDuringWait ==
    [][\A ch \in Delivered : SingleConnection(chans[ch].conn) => Awaited(ch)]_vars

\* C32: when no worker has a request outstanding the slot is empty; a
\* request that ended, by its reply or by the timeout, left no channel in
\* it.
C32_SlotEmptyWhenIdle ==
    (\A c \in Conns : ~Outstanding(c)) => response_tx = 0

\* C33: every line a worker has read, JSON or not, is answered with one
\* reply line on its connection: never more replies than lines, and while
\* the connection stays open the n-th line read leads to the n-th reply.
C33_EveryLineGetsOneReply ==
    /\ [](\A c \in Conns : Len(workers[c].replies) <= workers[c].lines)
    /\ \A c \in Conns : \A n \in 1..MaxLines :
            (workers[c].lines >= n) ~> (Len(workers[c].replies) >= n \/ workers[c].pc = "closed")

\* The step reads the reply line of the tool call in fe.line and answers the
\* call with what the tool's handler makes of the reply.
AnswersReply(reply) ==
    /\ fe.pc = "recv" /\ fe'.pc = "read"
    /\ net' = net \o <<NetEvent("recv", ""), NetEvent("close", "")>>
    /\ out' = Success(fe.line.id, ToolText(Render(fe.line.name, fe.line.args, reply)))

\* C34: a tool call whose request the control plane answered with the
\* synthesized {"error": "Timeout or no response"} gets an error content
\* block, isError set, whatever the tool.
C34_TimeoutReplyIsToolError ==
    [][AnswersReply(TimeoutReply) => (out'.kind = "result" /\ out'.result.isError)]_vars

\* ------------------------------------------------------ lock progress
\* Every step that follows the first step of a command or of a reader's
\* pass over the buffer is taken once it stays possible: the threads run,
\* and the device calls of WriteIO and ResizeIO return.
LockEvents == 3

NextLocks == Next /\ events' <= LockEvents

SpecLocks == Init /\ [][NextLocks]_vars

LiveSessions ==
    /\ SpecLocks
    /\ \A t \in Threads :
        /\ WF_vars(SpawnInsertProcess(t)) /\ WF_vars(SpawnInsertBuffer(t))
        /\ WF_vars(WriteIO(t)) /\ WF_vars(ResizeIO(t)) /\ WF_vars(KillRemoveBuffer(t))
    /\ \A s \in 1..MaxSessions : WF_vars(PumpAppend(s)) /\ WF_vars(PumpTrim(s))

\* C35: no interleaving of the commands and the readers ends with a
\* command or a reader stuck on the two locks: every command that started
\* returns, and every reader that has a chunk to store gets back to its
\* read.
C35_StartedOperationsComplete ==
    /\ \A t \in Threads : (cmd[t].pc # "idle") ~> (cmd[t].pc = "idle")
    /\ \A s \in 1..MaxSessions :
            (s \in DOMAIN pumps /\ pumps[s].pc \in {"append", "trim"}) ~> (s \in DOMAIN pumps /\ pumps[s].pc = "read")

\* A kill holds the processes lock and waits for the output_buffers lock,
\* which a reader holds between its extend and its trim.
C35_Witness ==
    \E t \in Threads :
        /\ cmd[t].op = "kill" /\ cmd[t].pc = "remove_buffer" /\ procLock = t
        /\ bufLock # 0 /\ pumps[bufLock].pc = "trim"

\* The step changes what the processes map, or the output_buffers map,
\* holds under the id.
EntryChanged(map, id) ==
    \/ (id \in DOMAIN map) # (id \in DOMAIN map')
    \/ id \in DOMAIN map /\ id \in DOMAIN map' /\ map'[id] # map[id]

\* The step is a step of a spawn_shell, write_to_shell, resize_pty or
\* kill_shell call on the id.
CommandStepOn(id) ==
    \E t \in Threads :
        /\ cmd'[t] # cmd[t]
        /\ id \in {cmd[t].id, cmd'[t].id}
        /\ {cmd[t].op, cmd'[t].op} \cap {"spawn", "write", "resize", "kill"} # {}

\* The step is a step of the reader thread of a session spawned under the
\* id.
ReaderStepOn(id) ==
    \E s \in DOMAIN pumps : pumps'[s] # pumps[s] /\ pumps[s].tab = id

\* C36: a step of a command on one id leaves the processes entry and the
\* buffer of every other id as they are, and a reader thread changes the
\* buffer under its own id only and no processes entry.
C36_OtherIdsUntouched ==
    [][\A id \in TabIds :
            /\ EntryChanged(processes, id) => CommandStepOn(id)
            /\ EntryChanged(output_buffers, id) => (CommandStepOn(id) \/ ReaderStepOn(id))
            /\ \A other \in TabIds \ {id} :
                    (CommandStepOn(id) \/ ReaderStepOn(id))
                        => ~EntryChanged(processes, other) /\ ~EntryChanged(output_buffers, other)]_vars

\* Both ids have a session with output in its buffer when a kill on one of
\* them has returned.
C36_Witness ==
    /\ last = Ret("kill", "t1", "ok", <<>>)
    /\ "t1" \notin DOMAIN output_buffers
    /\ "t2" \in DOMAIN processes /\ "t2" \in DOMAIN output_buffers /\ output_buffers["t2"] # <<>>

\* Names a client may put in a tools/call.
CallNames == ListedNames \cup ToolNames \cup UnknownNames

\* execute_tool has a handler for the name: it does not answer with
\* "Unknown tool".
Accepted(name) ==
    \A a \in ArgsFor(name) : ExecuteToolLocal(name, a) # ToolError(<<"Unknown tool: ", name>>)

\* The names in a tools/list result.
NamesIn(result) == {result.text[i] : i \in 1..Len(result.text)}

\* C37: the names a tools/list response carries are the names tools/call
\* has a handler for: every listed name is accepted, every accepted name
\* is listed, and a tools/call is answered with "Unknown tool" exactly for
\* the names that are not listed.
C37_ListedEqualsDispatched ==
    /\ (Responded /\ out.kind = "result" /\ out.result.kind = "tools")
          => NamesIn(out.result) = {name \in CallNames : Accepted(name)}
    /\ (Responded /\ IsToolCall)
          => ((out.kind = "result" /\ out.result = ToolError(<<"Unknown tool: ", fe.line.name>>))
                <=> fe.line.name \notin ListedNames)

\* tools/list is answered with the sixteen names of the catalog.
C37_Witness ==
    /\ Responded /\ fe.line.method = "tools/list"
    /\ out.kind = "result" /\ out.result.kind = "tools" /\ Len(out.result.text) = 16

\* C38: the response to a request that carried an id carries that id,
\* whatever the method and whether the response is a result or an error.
C38_ResponseEchoesId ==
    (Responded /\ fe.line.kind = "request" /\ fe.line.id # "none") => out.id = fe.line.id

\* Streams to the control plane that send_to_app has opened and not yet
\* dropped, and request lines sent on them with no reply read.
OpenStreams == Count({"connect"}) - Count({"close"})
Unanswered == Count({"send"}) - Count({"recv", "eof"})

\* C39: the front end has at most one control-plane stream open and at
\* most one request on it, and none once the tool call has returned; while
\* a tool call is under way it reads no further input line and does not
\* leave its loop, and it connects only as the first thing a call does.
C39_OneOutstandingRequest ==
    /\ [](/\ OpenStreams \in {0, 1} /\ Unanswered \in {0, 1}
          /\ ~InCall(fe.pc) => OpenStreams = 0)
    /\ [][/\ InCall(fe.pc) => (fe'.n = fe.n /\ fe'.line = fe.line /\ fe'.pc # "exited")
          /\ (Count({"connect", "connect_failed"})' > Count({"connect", "connect_failed"}))
                => (fe.pc = "connect" /\ net = <<>>)]_vars

\* The second input line is a tool call whose request is on the wire with
\* no reply yet, after the first line was answered.
C39_Witness ==
    /\ fe.n = 2 /\ fe.pc = "recv" /\ Len(answered) = 1
    /\ OpenStreams = 1 /\ Unanswered = 1

====
